---------------------------- MODULE Spec2Model ----------------------------
(***************************************************************************)
(* Model of inventory_system.py: a module-level dict stock_data (item name *)
(* -> quantity) with add_item, remove_item, get_qty, check_low_items,      *)
(* load_data, save_data and print_data, plus the JSON file the last two    *)
(* read and write.                                                         *)
(*                                                                         *)
(* Python values are records [t, n, s]: t is the Python type, n the        *)
(* numeric value (bool: True = 1, False = 0, as in Python arithmetic),     *)
(* s the characters of a str.  A str is a sequence of one-character        *)
(* strings, so that str.strip() and the key order of sort_keys/sorted()    *)
(* are computed, not assumed.  A dict is the sequence of its entries in    *)
(* insertion order (Python dicts keep it).  Every call is made with the    *)
(* default logs=None, as every call in main() is: add_item then appends to *)
(* a fresh local list that is dropped on return.                           *)
(***************************************************************************)
EXTENDS Integers, Sequences, FiniteSets

VARIABLES stock_data, file, last

vars == <<stock_data, file, last>>

----------------------------------------------------------------------------
(* Bounds of the model *)

\* add_item is not taken when it would store more than MaxQty; integer
\* arguments (qty, threshold) range over -1 .. MaxQty + 1
MaxQty == 2

----------------------------------------------------------------------------
(* Python values *)

PyInt(k) == [t |-> "int", n |-> k, s |-> <<>>]
PyBool(b) == [t |-> "bool", n |-> IF b THEN 1 ELSE 0, s |-> <<>>]
PyStr(cs) == [t |-> "str", n |-> 0, s |-> cs]
\* the float 1.5
PyFloat == [t |-> "float", n |-> 1, s |-> <<>>]
PyNone == [t |-> "NoneType", n |-> 0, s |-> <<>>]

\* isinstance(v, str)
IsInstanceStr(v) == v.t = "str"

\* isinstance(v, int): bool is a subclass of int
IsInstanceInt(v) == v.t \in {"int", "bool"}

\* the characters str.strip() removes
Whitespace == {" "}

RECURSIVE LStrip(_)
LStrip(cs) ==
  IF cs # <<>> /\ Head(cs) \in Whitespace THEN LStrip(Tail(cs)) ELSE cs

RECURSIVE RStrip(_)
RStrip(cs) ==
  IF cs # <<>> /\ cs[Len(cs)] \in Whitespace
  THEN RStrip(SubSeq(cs, 1, Len(cs) - 1))
  ELSE cs

\* str.strip()
Strip(cs) == RStrip(LStrip(cs))

\* ord(c), for the comparison of str
Ord(c) == CASE c = " " -> 32 [] c = "a" -> 97 [] c = "b" -> 98

\* s < t on str
RECURSIVE StrLess(_, _)
StrLess(s, t) ==
  IF t = <<>> THEN FALSE
  ELSE IF s = <<>> THEN TRUE
  ELSE IF Ord(Head(s)) < Ord(Head(t)) THEN TRUE
  ELSE IF Ord(Head(s)) > Ord(Head(t)) THEN FALSE
  ELSE StrLess(Tail(s), Tail(t))

----------------------------------------------------------------------------
(* dict: entries [k, v] in insertion order, keys unique *)

DictKeys(d) == {d[i].k : i \in 1..Len(d)}

\* key in d
DictHas(d, key) == key \in DictKeys(d)

DictIndex(d, key) == CHOOSE i \in 1..Len(d) : d[i].k = key

\* d.get(key, default)
DictGet(d, key, default) ==
  IF DictHas(d, key) THEN d[DictIndex(d, key)].v ELSE default

\* d[key] = value: an existing key keeps its place, a new one goes last
DictSet(d, key, value) ==
  IF DictHas(d, key)
  THEN [d EXCEPT ![DictIndex(d, key)] = [k |-> key, v |-> value]]
  ELSE Append(d, [k |-> key, v |-> value])

\* del d[key]
DictDel(d, key) ==
  LET i == DictIndex(d, key)
  IN SubSeq(d, 1, i - 1) \o SubSeq(d, i + 1, Len(d))

\* d.update(pairs), pairs a sequence of entries
RECURSIVE DictUpdate(_, _)
DictUpdate(d, pairs) ==
  IF pairs = <<>> THEN d
  ELSE DictUpdate(DictSet(d, Head(pairs).k, Head(pairs).v), Tail(pairs))

\* sorted(keys)
RECURSIVE SortedKeys(_)
SortedKeys(S) ==
  IF S = {} THEN <<>>
  ELSE LET m == CHOOSE x \in S : \A y \in S : x = y \/ StrLess(x, y)
       IN <<m>> \o SortedKeys(S \ {m})

\* the entries of d by ascending key
SortedItems(d) ==
  LET ks == SortedKeys(DictKeys(d))
  IN [i \in 1..Len(ks) |-> [k |-> ks[i], v |-> DictGet(d, ks[i], PyNone)]]

----------------------------------------------------------------------------
(* JSON text, as the tokens of a document *)

JInt(k) == [j |-> "integer", n |-> k, s |-> <<>>]
JTrue == [j |-> "true", n |-> 0, s |-> <<>>]
JFalse == [j |-> "false", n |-> 0, s |-> <<>>]
\* the JSON string "ten" (its content plays no part)
JString == [j |-> "string", n |-> 0, s |-> <<"a">>]
\* the JSON number 1.5
JReal == [j |-> "real", n |-> 1, s |-> <<>>]
JNull == [j |-> "null", n |-> 0, s |-> <<>>]

\* json's decoder: JSON value -> Python value
FromJson(jv) ==
  CASE jv.j = "integer" -> PyInt(jv.n)
    [] jv.j = "true" -> PyBool(TRUE)
    [] jv.j = "false" -> PyBool(FALSE)
    [] jv.j = "string" -> PyStr(jv.s)
    [] jv.j = "real" -> PyFloat
    [] jv.j = "null" -> PyNone

\* json's encoder: Python value -> JSON value (bool is tested before int)
ToJson(pv) ==
  CASE pv.t = "bool" -> (IF pv.n = 1 THEN JTrue ELSE JFalse)
    [] pv.t = "int" -> JInt(pv.n)
    [] pv.t = "str" -> [j |-> "string", n |-> 0, s |-> pv.s]
    [] pv.t = "float" -> JReal
    [] pv.t = "NoneType" -> JNull

\* What is at the path: nothing, a directory (exists, cannot be opened as a
\* file), bytes that are no JSON document, or a JSON document whose top-level
\* value is an object (members in textual order), or an array.
NoFile == [kind |-> "missing", top |-> "none", members |-> <<>>]
Directory == [kind |-> "directory", top |-> "none", members |-> <<>>]
Garbage == [kind |-> "garbage", top |-> "none", members |-> <<>>]
JsonArray == [kind |-> "json", top |-> "array", members |-> <<>>]
JsonObject(ms) == [kind |-> "json", top |-> "object", members |-> ms]

\* the dict json.load builds from an object: members inserted in textual order
ObjectToDict(ms) ==
  DictUpdate(<<>>, [i \in 1..Len(ms) |-> [k |-> ms[i].k, v |-> FromJson(ms[i].v)]])

\* the quantities are written as text
JsonDumpQuantitiesAsText(d) ==
  LET items == SortedItems(d)
  IN JsonObject([i \in 1..Len(items) |-> [k |-> items[i].k, v |-> JString]])

\* json.dump(d, handle, indent=2, sort_keys=True)
JsonDump(d) ==
  LET items == SortedItems(d)
  IN JsonObject([i \in 1..Len(items) |-> [k |-> items[i].k, v |-> ToJson(items[i].v)]])

----------------------------------------------------------------------------
(* The operations, as functions of the dict and the arguments *)

\* the test without the strip
ValidItemNoStrip(item) == IsInstanceStr(item) /\ item.s # <<>>

\* isinstance(item, str) and item.strip(): the test add_item, remove_item and
\* get_qty all start with
ValidItem(item) == IsInstanceStr(item) /\ Strip(item.s) # <<>>

\* add_item: what it raises, or "ok"
AddOutcome(item, qty) ==
  IF ~ValidItem(item) THEN "ValueError"
  ELSE IF ~IsInstanceInt(qty) THEN "ValueError"
  ELSE IF qty.n < 0 THEN "ValueError"
  ELSE "ok"

\* the quantity is stored under the trimmed name
AddResultTrimmedKey(d, item, qty) ==
  DictSet(d, Strip(item.s), PyInt(DictGet(d, Strip(item.s), PyInt(0)).n + qty.n))

\* stock_data[item] = stock_data.get(item, 0) + qty
AddResult(d, item, qty) ==
  DictSet(d, item.s, PyInt(DictGet(d, item.s, PyInt(0)).n + qty.n))

\* remove_item: a missing item is looked up without the membership test, so
\* that stock_data[item] -= qty raises
RemoveOutcomeNoMissingTest(d, item, qty) ==
  IF ~ValidItem(item) THEN "ValueError"
  ELSE IF ~IsInstanceInt(qty) \/ qty.n <= 0 THEN "ValueError"
  ELSE IF ~DictHas(d, item.s) THEN "KeyError"
  ELSE "ok"

\* remove_item on the dict d: what it raises, or "ok"
RemoveOutcome(d, item, qty) ==
  IF ~ValidItem(item) THEN "ValueError"
  ELSE IF ~IsInstanceInt(qty) \/ qty.n <= 0 THEN "ValueError"
  ELSE "ok"

\* the entry is deleted below 0 only
RemoveResultKeepsZero(d, item, qty) ==
  IF ~DictHas(d, item.s) THEN d
  ELSE LET dec == DictSet(d, item.s, PyInt(DictGet(d, item.s, PyInt(0)).n - qty.n))
       IN IF DictGet(dec, item.s, PyInt(0)).n < 0
          THEN DictDel(dec, item.s)
          ELSE dec

\* remove_item past its validation: the dict it leaves
RemoveResult(d, item, qty) ==
  IF ~DictHas(d, item.s) THEN d
  ELSE LET dec == DictSet(d, item.s, PyInt(DictGet(d, item.s, PyInt(0)).n - qty.n))
       IN IF DictGet(dec, item.s, PyInt(0)).n <= 0
          THEN DictDel(dec, item.s)
          ELSE dec

\* remove_item past its validation: the logging call it makes
RemoveLog(d, item, qty) ==
  IF ~DictHas(d, item.s) THEN "WARNING Tried removing missing item"
  ELSE IF DictGet(d, item.s, PyInt(0)).n - qty.n <= 0
  THEN "INFO Removed item completely"
  ELSE "INFO New qty"

\* get_qty: what it raises, or "ok"
GetOutcome(item) == IF ~ValidItem(item) THEN "ValueError" ELSE "ok"

\* stock_data.get(item, 0)
GetResult(d, item) == DictGet(d, item.s, PyInt(0))

\* check_low_items: what it raises, or "ok"
LowOutcome(threshold) ==
  IF ~IsInstanceInt(threshold) \/ threshold.n < 0 THEN "ValueError" ELSE "ok"

\* qty <= threshold
LowItemsInclusive(d, threshold) ==
  LET keep == {i \in 1..Len(d) : d[i].v.n <= threshold.n}
      F[i \in 0..Len(d)] ==
        IF i = 0 THEN <<>>
        ELSE IF i \in keep THEN Append(F[i - 1], d[i].k) ELSE F[i - 1]
  IN F[Len(d)]

\* [name for name, qty in stock_data.items() if qty < threshold], in dict order
LowItems(d, threshold) ==
  LET keep == {i \in 1..Len(d) : d[i].v.n < threshold.n}
      F[i \in 0..Len(d)] ==
        IF i = 0 THEN <<>>
        ELSE IF i \in keep THEN Append(F[i - 1], d[i].k) ELSE F[i - 1]
  IN F[Len(d)]

\* all(isinstance(k, str) and isinstance(v, int) for k, v in data.items());
\* the keys of a JSON object are str
AllStrToInt(data) == \A i \in 1..Len(data) : IsInstanceInt(data[i].v)

\* load_data: what it raises, or "ok"
LoadOutcome(f) ==
  IF f.kind = "missing" THEN "ok"
  ELSE IF f.kind = "directory" THEN "OSError"
  ELSE IF f.kind = "garbage" THEN "JSONDecodeError"
  ELSE IF f.top # "object" THEN "ValueError"
  ELSE IF ~AllStrToInt(ObjectToDict(f.members)) THEN "ValueError"
  ELSE "ok"

\* update without clear
LoadResultNoClear(d, f) ==
  IF f.kind = "missing" THEN <<>>
  ELSE DictUpdate(d, ObjectToDict(f.members))

\* load_data when it returns: stock_data.clear(), then .update(data) if the
\* file exists
LoadResult(d, f) ==
  IF f.kind = "missing" THEN <<>>
  ELSE DictUpdate(<<>>, ObjectToDict(f.members))

\* print_data: the lines after the header, name -> quantity by sorted(name)
ReportLines(d) == SortedItems(d)

----------------------------------------------------------------------------
(* Inputs *)

\* "", " ", " a", "b"
StrItems == {<<>>, <<" ">>, <<" ", "a">>, <<"b">>}

\* arguments for item: str, and None for what is not a str
ItemArgs == {PyStr(cs) : cs \in StrItems} \cup {PyNone}

\* arguments for qty and threshold: int, True, and 1.5 for what is not an int
IntArgs == {PyInt(k) : k \in -1..MaxQty + 1} \cup {PyBool(TRUE), PyFloat}

\* the valid arguments the file operations are exercised with
FewItemArgs == {PyStr(<<" ", "a">>), PyStr(<<"b">>)}
FewIntArgs == {PyInt(1), PyInt(2)}

Member(key, jv) == [k |-> key, v |-> jv]

\* what can be put at the path from outside the program
\* files that pass load_data's validation
FewFiles ==
  { NoFile,
    JsonObject(<<Member(<<"b">>, JInt(-1))>>),
    JsonObject(<<Member(<<"b">>, JTrue)>>),
    JsonObject(<<Member(<<"b">>, JInt(1)), Member(<<" ", "a">>, JInt(2))>>) }

ExternalFiles ==
  { NoFile, Directory, Garbage, JsonArray,
    JsonObject(<<>>),
    JsonObject(<<Member(<<" ", "a">>, JString)>>),
    JsonObject(<<Member(<<"b">>, JReal)>>),
    JsonObject(<<Member(<<"b">>, JInt(-1))>>),
    JsonObject(<<Member(<<"b">>, JTrue)>>),
    JsonObject(<<Member(<<"b">>, JInt(1)), Member(<<" ", "a">>, JInt(2))>>),
    JsonObject(<<Member(<<"b">>, JInt(1)), Member(<<"b">>, JInt(2))>>),
    JsonObject(<<Member(<<" ", "a">>, JInt(1)), Member(<<"b">>, JString)>>) }

----------------------------------------------------------------------------
(* The state machine.  last records the call that made the step: its        *)
(* arguments, what it raised ("ok" if nothing), the dict it found, and what  *)
(* it returned and logged.                                                   *)

Call(op, item, qty, outcome) ==
  [op |-> op, item |-> item, qty |-> qty, outcome |-> outcome,
   before |-> stock_data,
   ret |-> PyNone, names |-> <<>>, lines |-> <<>>, log |-> ""]

Init ==
  /\ stock_data = <<>>
  /\ file = NoFile
  /\ last = Call("init", PyNone, PyNone, "ok")

AddItem(item, qty) ==
  /\ AddOutcome(item, qty) = "ok" =>
       DictGet(stock_data, item.s, PyInt(0)).n + qty.n <= MaxQty
  /\ stock_data' = IF AddOutcome(item, qty) = "ok"
                   THEN AddResult(stock_data, item, qty)
                   ELSE stock_data
  /\ last' = [Call("add", item, qty, AddOutcome(item, qty)) EXCEPT
                !.log = IF AddOutcome(item, qty) = "ok" THEN "INFO Added" ELSE ""]
  /\ UNCHANGED file

RemoveItem(item, qty) ==
  /\ stock_data' = IF RemoveOutcome(stock_data, item, qty) = "ok"
                   THEN RemoveResult(stock_data, item, qty)
                   ELSE stock_data
  /\ last' = [Call("remove", item, qty, RemoveOutcome(stock_data, item, qty)) EXCEPT
                !.log = IF RemoveOutcome(stock_data, item, qty) = "ok"
                        THEN RemoveLog(stock_data, item, qty) ELSE ""]
  /\ UNCHANGED file

GetQty(item) ==
  /\ last' = [Call("get", item, PyNone, GetOutcome(item)) EXCEPT
                !.ret = IF GetOutcome(item) = "ok"
                        THEN GetResult(stock_data, item) ELSE PyNone]
  /\ UNCHANGED <<stock_data, file>>

CheckLowItems(threshold) ==
  /\ last' = [Call("low", PyNone, threshold, LowOutcome(threshold)) EXCEPT
                !.names = IF LowOutcome(threshold) = "ok"
                          THEN LowItems(stock_data, threshold) ELSE <<>>]
  /\ UNCHANGED <<stock_data, file>>

LoadData ==
  /\ stock_data' = IF LoadOutcome(file) = "ok"
                   THEN LoadResult(stock_data, file)
                   ELSE stock_data
  /\ last' = Call("load", PyNone, PyNone, LoadOutcome(file))
  /\ UNCHANGED file

\* path.open("w") fails on a directory; otherwise it truncates the file and
\* json.dump writes it, completely (io = "ok") or until a write fails
SaveData(io) ==
  /\ file' = IF file.kind = "directory" THEN file
             ELSE IF io = "ok" THEN JsonDump(stock_data)
             ELSE Garbage
  /\ last' = Call("save", PyNone, PyNone,
                  IF file.kind = "directory" \/ io # "ok" THEN "OSError" ELSE "ok")
  /\ UNCHANGED stock_data

PrintData ==
  /\ last' = [Call("report", PyNone, PyNone, "ok") EXCEPT
                !.lines = ReportLines(stock_data)]
  /\ UNCHANGED <<stock_data, file>>

\* the file at the path is replaced from outside the program
ExternalWrite(f) ==
  /\ file' = f
  /\ last' = Call("external", PyNone, PyNone, "ok")
  /\ UNCHANGED stock_data

\* the calls that touch no file
StoreStep(items, ints) ==
  \/ \E item \in items, qty \in ints : AddItem(item, qty)
  \/ \E item \in items, qty \in ints : RemoveItem(item, qty)
  \/ \E item \in items : GetQty(item)
  \/ \E threshold \in ints : CheckLowItems(threshold)
  \/ PrintData

\* every argument, valid or not; the dict is also filled by load_data from
\* the files it accepts
Next ==
  \/ StoreStep(ItemArgs, IntArgs)
  \/ LoadData
  \/ \E f \in FewFiles : ExternalWrite(f)

Spec == Init /\ [][Next]_vars

\* every file, readable or not, and save_data, with valid arguments to the
\* other operations
NextFile ==
  \/ StoreStep(FewItemArgs, FewIntArgs)
  \/ LoadData
  \/ \E io \in {"ok", "ENOSPC"} : SaveData(io)
  \/ \E f \in ExternalFiles : ExternalWrite(f)

SpecFile == Init /\ [][NextFile]_vars

----------------------------------------------------------------------------
(* Vocabulary of the properties *)

\* the mapping a dict holds: its (name, quantity) pairs
Mapping(d) == {<<d[i].k, d[i].v>> : i \in 1..Len(d)}

\* the quantities a dict holds
Quantities(d) == {d[i].v.n : i \in 1..Len(d)}

\* a name is stored in d
Stored(d, name) == \E i \in 1..Len(d) : d[i].k = name

\* the quantity stored for a name of d
QuantityOf(d, name) == (CHOOSE e \in Mapping(d) : e[1] = name)[2].n

\* a str with a character that is not whitespace
GoodName(item) ==
  item.t = "str" /\ \E i \in 1..Len(item.s) : item.s[i] \notin Whitespace

\* an int of Python (True is one)
Integer(v) == v.t \in {"int", "bool"}

\* the mapping a JSON object denotes: for each name, its last member
FileMapping(f) ==
  {<<f.members[i].k, FromJson(f.members[i].v)>> :
     i \in {j \in 1..Len(f.members) :
              \A h \in (j + 1)..Len(f.members) : f.members[h].k # f.members[j].k}}

\* a file load must refuse: unreadable, not JSON, not an object, or an object
\* with a member whose value is no JSON integer
Unloadable(f) ==
  \/ f.kind \in {"directory", "garbage"}
  \/ f.kind = "json" /\ f.top # "object"
  \/ f.kind = "json" /\ \E i \in 1..Len(f.members) : f.members[i].v.j # "integer"

----------------------------------------------------------------------------
(* The properties *)

\* C1: in every reachable state no entry of the store has a quantity <= 0.
C1_NoEntryAtOrBelowZero == \A q \in Quantities(stock_data) : q > 0

\* C2: in every reachable state, states reached by a load the validation
\* accepts included, every stored quantity is >= 0 and get_quantity returns a
\* nonnegative integer for every valid item.
C2_NeverNegative ==
  /\ \A q \in Quantities(stock_data) : q >= 0
  /\ (last.op = "get" /\ GoodName(last.item)) =>
       (last.outcome = "ok" /\ Integer(last.ret) /\ last.ret.n >= 0)

\* C3: for a valid item and an integer qty >= 0, add(item, qty) succeeds and
\* get_quantity(item) right after it returns what it returned before plus qty.
C3_AddThenGet ==
  (last.op = "add" /\ GoodName(last.item) /\ Integer(last.qty) /\ last.qty.n >= 0) =>
    /\ last.outcome = "ok"
    /\ GetOutcome(last.item) = "ok"
    /\ GetResult(stock_data, last.item).n
         = GetResult(last.before, last.item).n + last.qty.n

\* add(" a", 1) on a store that held 1 of " a"
C3_Witness ==
  /\ last.op = "add" /\ last.outcome = "ok"
  /\ last.item = PyStr(<<" ", "a">>) /\ last.qty = PyInt(1)
  /\ GetResult(last.before, last.item).n = 1
  /\ GetResult(stock_data, last.item).n = 2

\* C4: remove(item, qty) of a stored item with quantity c and an integer
\* qty > 0 is accepted; if qty >= c the entry is deleted and get_quantity
\* returns 0, if qty < c the entry stays with quantity c - qty.
C4_RemoveStored ==
  (/\ last.op = "remove" /\ GoodName(last.item)
   /\ Integer(last.qty) /\ last.qty.n > 0
   /\ Stored(last.before, last.item.s)) =>
    /\ last.outcome = "ok"
    /\ IF last.qty.n >= QuantityOf(last.before, last.item.s)
       THEN /\ ~Stored(stock_data, last.item.s)
            /\ GetResult(stock_data, last.item).n = 0
       ELSE /\ Stored(stock_data, last.item.s)
            /\ QuantityOf(stock_data, last.item.s)
                 = QuantityOf(last.before, last.item.s) - last.qty.n

\* remove of exactly the quantity stored, 2, beside another entry that stays
C4_Witness ==
  /\ last.op = "remove" /\ last.outcome = "ok"
  /\ Stored(last.before, last.item.s)
  /\ QuantityOf(last.before, last.item.s) = 2 /\ last.qty = PyInt(2)
  /\ ~Stored(stock_data, last.item.s)
  /\ Len(stock_data) = 1

\* C5: remove(item, qty) with valid arguments on an item that is not stored
\* raises nothing, creates no entry and leaves the whole store as it was,
\* every time it is called.
C5_RemoveAbsent ==
  (/\ last.op = "remove" /\ GoodName(last.item)
   /\ Integer(last.qty) /\ last.qty.n > 0
   /\ ~Stored(last.before, last.item.s)) =>
    /\ last.outcome = "ok"
    /\ ~Stored(stock_data, last.item.s)
    /\ stock_data = last.before

\* remove("b", 1) on a store that holds " a" only
C5_Witness ==
  /\ last.op = "remove" /\ last.outcome = "ok"
  /\ last.item = PyStr(<<"b">>)
  /\ last.log = "WARNING Tried removing missing item"
  /\ Len(stock_data) = 1 /\ Stored(stock_data, <<" ", "a">>)

\* the calls C6 names: a name that is no str, empty or all whitespace; a qty
\* of add that is no integer or negative; a qty of remove that is no integer
\* or not positive; a threshold that is no integer or negative
InvalidCall(c) ==
  \/ c.op \in {"add", "remove", "get"} /\ c.item.t # "str"
  \/ c.op \in {"add", "remove", "get"} /\ c.item.t = "str"
       /\ \A i \in 1..Len(c.item.s) : c.item.s[i] \in Whitespace
  \/ c.op = "add" /\ (~Integer(c.qty) \/ c.qty.n < 0)
  \/ c.op = "remove" /\ (~Integer(c.qty) \/ c.qty.n <= 0)
  \/ c.op = "low" /\ (~Integer(c.qty) \/ c.qty.n < 0)

\* C6: an invalid input always raises ValueError and leaves the store
\* unchanged, in add, remove, get_quantity and list_low_stock.
C6_InvalidInput ==
  InvalidCall(last) => (last.outcome = "ValueError" /\ stock_data = last.before)

\* add(" ", 1) refused on a store that holds an entry
C6_Witness ==
  /\ last.op = "add" /\ last.outcome = "ValueError"
  /\ last.item = PyStr(<<" ">>) /\ last.qty = PyInt(1)
  /\ stock_data # <<>> /\ stock_data = last.before

\* C7: save does not change the store, and a load right after a save that
\* succeeded succeeds and leaves the store with the (name, quantity) pairs it
\* had before the save.
C7_SaveLoadRoundTrip ==
  [][/\ last'.op = "save" => stock_data' = stock_data
     /\ (last.op = "save" /\ last.outcome = "ok" /\ last'.op = "load") =>
          /\ last'.outcome = "ok"
          /\ Mapping(stock_data') = Mapping(stock_data)
          /\ Mapping(stock_data') = Mapping(last.before)]_vars

\* a load of a file save wrote from a store of two entries held in the
\* opposite of key order
C7_Witness ==
  /\ last.op = "load" /\ last.outcome = "ok"
  /\ file = JsonDump(last.before)
  /\ Len(last.before) = 2 /\ StrLess(last.before[2].k, last.before[1].k)
  /\ Mapping(stock_data) = Mapping(last.before)
  /\ stock_data # last.before

\* C8: for an integer threshold t >= 0, list_low_stock(t) returns exactly the
\* names whose stored quantity is < t, nothing on the empty store, and does
\* not change the store.
C8_LowStock ==
  (last.op = "low" /\ Integer(last.qty) /\ last.qty.n >= 0) =>
    /\ last.outcome = "ok"
    /\ {last.names[i] : i \in 1..Len(last.names)}
         = {e[1] : e \in {x \in Mapping(stock_data) : x[2].n < last.qty.n}}
    /\ last.before = <<>> => last.names = <<>>
    /\ stock_data = last.before

\* a threshold of 2 on a store with one entry below it and one at it
C8_Witness ==
  /\ last.op = "low" /\ last.qty = PyInt(2)
  /\ Len(stock_data) = 2 /\ Quantities(stock_data) = {1, 2}
  /\ Len(last.names) = 1

\* C9: a load of a file that is unreadable, not JSON, not an object, or has a
\* value that is no integer raises an error and leaves the store as it was.
C9_FailedLoad ==
  (last.op = "load" /\ Unloadable(file)) =>
    (last.outcome # "ok" /\ stock_data = last.before)

\* C10: after a load that returns, the store is exactly the mapping in the
\* file; with no file the load returns and the store is empty, whatever it
\* held before.
C10_LoadReplaces ==
  /\ (last.op = "load" /\ last.outcome = "ok") =>
       Mapping(stock_data) = (IF file.kind = "missing" THEN {} ELSE FileMapping(file))
  /\ (last.op = "load" /\ file.kind = "missing") =>
       (last.outcome = "ok" /\ stock_data = <<>>)

\* a load of a file with the one member "b" over a store that held " a"
C10_Witness ==
  /\ last.op = "load" /\ last.outcome = "ok"
  /\ Stored(last.before, <<" ", "a">>)
  /\ file.kind = "json" /\ Len(file.members) = 1
  /\ Mapping(stock_data) = FileMapping(file)
  /\ ~Stored(stock_data, <<" ", "a">>)

============================================================================
